---- MODULE Spec2Model ----
(***************************************************************************)
(* A model of utils/api.py: the ArxivApi client.  query() rewrites the     *)
(* caller's query with a generative model, builds the arXiv URL, issues    *)
(* the HTTP GET, parses the Atom feed and reranks the parsed records.      *)
(*                                                                         *)
(* Python values are modelled as follows.  A str is a sequence of          *)
(* one-character strings.  None is the tuple <<"None">>, which is no str   *)
(* (its element is not one character).  A float score is an integer (only  *)
(* the order of scores matters).  A call either returns a value or raises  *)
(* an exception, named by its class.                                       *)
(***************************************************************************)
EXTENDS Integers, Sequences, FiniteSets, TLC

\* ------------------------------------------------------------- bounds
MaxLen == 2          \* longest search expression drawn
MaxStart == 1        \* largest start offset drawn
MaxResults == 1      \* largest small max_results drawn (the defaults are added)
MaxTopN == 2         \* largest top_n drawn
MaxEntries == 2      \* most entries in a feed handed to the parser
MaxDocs == 2         \* most candidates handed to the reranker
MaxRerank == 2       \* most results the reranking provider returns
MaxScore == 2        \* scores are drawn from 1..MaxScore

\* ---------------------------------------------------- Python values
None == <<"None">>

\* What a call has come to: still running, a returned value, a returned
\* None, or a raised exception.
Running == [kind |-> "running", none |-> FALSE, value |-> << >>, exc |-> "-"]
Return(v) == [kind |-> "return", none |-> FALSE, value |-> v, exc |-> "-"]
ReturnNone == [kind |-> "return", none |-> TRUE, value |-> << >>, exc |-> "-"]
Raise(e) == [kind |-> "raise", none |-> FALSE, value |-> << >>, exc |-> e]

\* The classes derived from requests.exceptions.RequestException that
\* Session.get and Response.raise_for_status raise.
RequestException == {"ConnectionError", "Timeout", "HTTPError"}

\* All sequences over S of length at most n.
SeqsUpTo(S, n) == UNION {[1..k -> S] : k \in 0..n}

\* -------------------------------------------------------- URL builder
BaseUrl ==
  << "h","t","t","p",":","/","/","e","x","p","o","r","t",".",
     "a","r","x","i","v",".","o","r","g","/","a","p","i" >>

DefaultUrlMaxResults == 10
DefaultQueryMaxResults == 100

DigitChars == << "0","1","2","3","4","5","6","7","8","9" >>

\* An f-string's rendering of a non-negative int: its decimal digits.
RECURSIVE IntToStr(_)
IntToStr(n) ==
  IF n < Len(DigitChars) THEN << DigitChars[n + 1] >>
  ELSE IntToStr(n \div Len(DigitChars)) \o << DigitChars[(n % Len(DigitChars)) + 1] >>

\* sep.join(parts)
RECURSIVE Join(_, _)
Join(parts, sep) ==
  IF Len(parts) = 0 THEN << >>
  ELSE IF Len(parts) = 1 THEN parts[1]
  ELSE parts[1] \o sep \o Join(Tail(parts), sep)

SearchQueryKey == << "s","e","a","r","c","h","_","q","u","e","r","y" >>
StartKey == << "s","t","a","r","t" >>
MaxResultsKey == << "m","a","x","_","r","e","s","u","l","t","s" >>
QueryPath == << "/","q","u","e","r","y","?" >>

\* The three params in the order they are appended.
UrlParams(search_query, start_arg, max_results_arg) ==
  << SearchQueryKey \o << "=" >> \o search_query,
     StartKey \o << "=" >> \o IntToStr(start_arg),
     MaxResultsKey \o << "=" >> \o IntToStr(max_results_arg) >>

\* A builder that accepts the empty expression.
GetQueryUrlNoGuard(search_query, start_arg, max_results_arg) ==
  Return(BaseUrl \o QueryPath
         \o Join(UrlParams(search_query, start_arg, max_results_arg), << "&" >>))

\* __get_query_url: `not search_query` is true of the empty str.
GetQueryUrl(search_query, start_arg, max_results_arg) ==
  IF search_query = << >>
  THEN Raise("ValueError")
  ELSE Return(BaseUrl \o QueryPath
              \o Join(UrlParams(search_query, start_arg, max_results_arg), << "&" >>))

\* -------------------------------------------------------- feed parser
\* An Atom document as ElementTree sees it.  find() yields an element or
\* None: an element that is not there has present = FALSE.  An element's
\* text is a str, or None when the element is empty; get() of an attribute
\* that is not there is None.
Elem(text) == [present |-> TRUE, text |-> text]
NoElem == [present |-> FALSE, text |-> None]
AttrElem(value) == [present |-> TRUE, attr |-> value]
NoAttrElem == [present |-> FALSE, attr |-> None]
Author(name) == [name |-> name]

IsSpace(c) == c = " "

\* str.strip(): drop the leading and the trailing whitespace.
RECURSIVE LStrip(_)
LStrip(s) == IF Len(s) > 0 /\ IsSpace(Head(s)) THEN LStrip(Tail(s)) ELSE s
RECURSIVE RStrip(_)
RStrip(s) ==
  IF Len(s) > 0 /\ IsSpace(s[Len(s)]) THEN RStrip(SubSeq(s, 1, Len(s) - 1)) ELSE s
Strip(s) == RStrip(LStrip(s))

\* The attribute accesses of lines 188-197 that hit None and raise
\* AttributeError: .text or .get of a find() that found nothing, and
\* .strip() of a summary without text.
EntryRaises(entry) ==
  \/ ~entry.id.present
  \/ ~entry.updated.present
  \/ ~entry.published.present
  \/ ~entry.title.present
  \/ ~entry.summary.present
  \/ entry.summary.text = None
  \/ \E i \in 1..Len(entry.authors) : ~entry.authors[i].name.present
  \/ ~entry.link.present
  \/ ~entry.pdf_link.present
  \/ ~entry.primary_category.present

\* The ArxivApiQueryResponse built from one entry.
EntryRecord(entry) ==
  [ id |-> entry.id.text,
    updated |-> entry.updated.text,
    published |-> entry.published.text,
    title |-> entry.title.text,
    summary |-> Strip(entry.summary.text),
    authors |-> [i \in 1..Len(entry.authors) |-> entry.authors[i].name.text],
    link |-> entry.link.attr,
    pdf_link |-> entry.pdf_link.attr,
    primary_category |-> entry.primary_category.attr,
    categories |-> [i \in 1..Len(entry.categories) |-> entry.categories[i].attr] ]

\* A loop that puts each record in front of the earlier ones.
RECURSIVE ParseEntriesPrepend(_, _)
ParseEntriesPrepend(entries, results) ==
  IF Len(entries) = 0 THEN Return(results)
  ELSE IF EntryRaises(Head(entries)) THEN Raise("AttributeError")
  ELSE ParseEntriesPrepend(Tail(entries), << EntryRecord(Head(entries)) >> \o results)

\* The for loop of lines 186-199: the first entry that raises ends the call.
RECURSIVE ParseEntries(_, _)
ParseEntries(entries, results) ==
  IF Len(entries) = 0 THEN Return(results)
  ELSE IF EntryRaises(Head(entries)) THEN Raise("AttributeError")
  ELSE ParseEntries(Tail(entries), Append(results, EntryRecord(Head(entries))))

\* __parse_query_xml: ET.fromstring raises ParseError on bytes that are no
\* well-formed XML.
ParseQueryXml(xml_content) ==
  IF ~xml_content.wellformed THEN Raise("ParseError")
  ELSE ParseEntries(xml_content.entries, << >>)

\* ----------------------------------------------------------- reranker
\* A from_query_response that copies link into pdf_link.
FromQueryResponseLink(query_response, relevance_score) ==
  [ id |-> query_response.id,
    updated |-> query_response.updated,
    published |-> query_response.published,
    title |-> query_response.title,
    summary |-> query_response.summary,
    authors |-> query_response.authors,
    link |-> query_response.link,
    pdf_link |-> query_response.link,
    primary_category |-> query_response.primary_category,
    categories |-> query_response.categories,
    relevance_score |-> relevance_score ]

\* ArxivApiResponse.from_query_response
FromQueryResponse(query_response, relevance_score) ==
  [ id |-> query_response.id,
    updated |-> query_response.updated,
    published |-> query_response.published,
    title |-> query_response.title,
    summary |-> query_response.summary,
    authors |-> query_response.authors,
    link |-> query_response.link,
    pdf_link |-> query_response.pdf_link,
    primary_category |-> query_response.primary_category,
    categories |-> query_response.categories,
    relevance_score |-> relevance_score ]

\* A loop that puts each record in front of the earlier ones.
RECURSIVE RerankLoopPrepend(_, _, _)
RerankLoopPrepend(documents, rerank_results, results) ==
  IF Len(rerank_results) = 0 THEN results
  ELSE RerankLoopPrepend(documents, Tail(rerank_results),
         << FromQueryResponse(documents[Head(rerank_results).index + 1],
                              Head(rerank_results).relevance_score) >> \o results)

\* The for loop of lines 206-210 over the provider's results, in their
\* order.  Python's documents[i] is the model's documents[i + 1].
RECURSIVE RerankLoop(_, _, _)
RerankLoop(documents, rerank_results, results) ==
  IF Len(rerank_results) = 0 THEN results
  ELSE RerankLoop(documents, Tail(rerank_results),
         Append(results,
                FromQueryResponse(documents[Head(rerank_results).index + 1],
                                  Head(rerank_results).relevance_score)))

\* ------------------------------------------------------------ inputs
Chars == {"a", "&", "="}
Exprs == SeqsUpTo(Chars, MaxLen)
Queries == { << "a" >>, << "q" >> }
StartValues == 0..MaxStart
MaxResultsValues == (1..MaxResults) \cup {DefaultUrlMaxResults, DefaultQueryMaxResults}
TopNValues == 1..MaxTopN
Scores == 1..MaxScore

\* A complete entry of kind k.  Kind "x" has two authors and a summary
\* with surrounding whitespace.
GoodEntry(k) ==
  [ id |-> Elem(<< "i", k >>),
    updated |-> Elem(<< "u", k >>),
    published |-> Elem(<< "p", k >>),
    title |-> Elem(<< "t", k >>),
    summary |-> Elem(IF k = "x" THEN << " ", "s", k, " " >> ELSE << "s", " ", k >>),
    authors |-> IF k = "x"
                THEN << Author(Elem(<< "A" >>)), Author(Elem(<< "B" >>)) >>
                ELSE << Author(Elem(<< "B", k >>)) >>,
    link |-> AttrElem(<< "l", k >>),
    pdf_link |-> AttrElem(<< "f", k >>),
    primary_category |-> AttrElem(<< "c", k >>),
    categories |-> IF k = "x"
                   THEN << AttrElem(<< "c", k >>), AttrElem(<< "m" >>) >>
                   ELSE << AttrElem(<< "m" >>), AttrElem(<< "c", k >>) >> ]

Defects ==
  { "none", "no_id", "no_updated", "no_published", "no_title", "no_summary",
    "no_author_name", "no_link", "no_pdf_link", "no_primary_category",
    "no_link_href", "no_pdf_href", "no_primary_term", "no_category_term",
    "empty_title", "empty_summary" }

Defective(e, d) ==
  CASE d = "none" -> e
    [] d = "no_id" -> [e EXCEPT !.id = NoElem]
    [] d = "no_updated" -> [e EXCEPT !.updated = NoElem]
    [] d = "no_published" -> [e EXCEPT !.published = NoElem]
    [] d = "no_title" -> [e EXCEPT !.title = NoElem]
    [] d = "no_summary" -> [e EXCEPT !.summary = NoElem]
    [] d = "no_author_name" -> [e EXCEPT !.authors[1].name = NoElem]
    [] d = "no_link" -> [e EXCEPT !.link = NoAttrElem]
    [] d = "no_pdf_link" -> [e EXCEPT !.pdf_link = NoAttrElem]
    [] d = "no_primary_category" -> [e EXCEPT !.primary_category = NoAttrElem]
    [] d = "no_link_href" -> [e EXCEPT !.link = AttrElem(None)]
    [] d = "no_pdf_href" -> [e EXCEPT !.pdf_link = AttrElem(None)]
    [] d = "no_primary_term" -> [e EXCEPT !.primary_category = AttrElem(None)]
    [] d = "no_category_term" -> [e EXCEPT !.categories[1] = AttrElem(None)]
    [] d = "empty_title" -> [e EXCEPT !.title = Elem(None)]
    [] d = "empty_summary" -> [e EXCEPT !.summary = Elem(None)]

EntryPool ==
  {Defective(GoodEntry("x"), d) : d \in Defects}
  \cup {Defective(GoodEntry("y"), d) : d \in {"none", "no_title", "no_category_term"}}

NotXml == [wellformed |-> FALSE, entries |-> << >>]
Feed(entries) == [wellformed |-> TRUE, entries |-> entries]
Contents == {NotXml} \cup {Feed(f) : f \in SeqsUpTo(EntryPool, MaxEntries)}

\* The response bodies the arXiv GET of query is given.
QueryContents ==
  { NotXml,
    Feed(<< >>),
    Feed(<< GoodEntry("x") >>),
    Feed(<< GoodEntry("y"), GoodEntry("x") >>),
    Feed(<< GoodEntry("y"), Defective(GoodEntry("x"), "no_title") >>),
    Feed(<< Defective(GoodEntry("x"), "no_category_term") >>) }

\* n distinct candidates, as the parser builds them.
DocKinds == << "x", "y", "z", "w" >>
Docs(n) == [i \in 1..n |-> EntryRecord(GoodEntry(DocKinds[((i - 1) % Len(DocKinds)) + 1]))]

\* The arguments query is called with.
QueryArgs ==
  { [start |-> 0, max_results |-> DefaultQueryMaxResults, top_n |-> 10],
    [start |-> 1, max_results |-> DefaultUrlMaxResults, top_n |-> 2],
    [start |-> 0, max_results |-> 1, top_n |-> 1] }

\* The search expressions the generative model's JSON carries in query.
QueryExprs == { << >>, << "a" >>, << "a", "&", "a" >>, << "q", "=" >> }

\* response.text of the generative model: JSON or not, the keys of the
\* object, and the value of search_query.
JsonKeys == {"search_query", "explanation"}
LLMResponses ==
  { [json |-> FALSE, keys |-> {}, search_query |-> << >>] }
  \cup { [json |-> TRUE, keys |-> K, search_query |-> << >>] :
           K \in (SUBSET JsonKeys) \ {JsonKeys} }
  \cup { [json |-> TRUE, keys |-> JsonKeys, search_query |-> e] : e \in QueryExprs }

\* What the reranking provider may answer for the given candidates: any
\* index/score pairs over the candidates' indices (0-based), in any order.
RerankResponses(documents) ==
  SeqsUpTo([index : 0..(Len(documents) - 1), relevance_score : Scores], MaxRerank)

\* The errors of the two providers' client libraries (google.generativeai,
\* cohere): classes of their own, none derived from RequestException.
GeminiErrors == {"GoogleAPIError"}
CohereErrors == {"CohereError"}

\* ------------------------------------------------------------- state
VARIABLES
  op,              \* the method called: query, or one of its private helpers
  pc,              \* where the call stands
  query,           \* the caller's query string
  start,           \* the caller's start
  max_results,     \* the caller's max_results
  top_n,           \* the caller's top_n
  search_query,    \* the search expression (the rewriter's, or the argument)
  url,             \* the URL built
  xml_content,     \* response.content / the parser's argument
  documents,       \* the parsed records / the reranker's argument
  rerank_results,  \* the reranking provider's results
  calls,           \* the outbound calls made so far, in order
  failed,          \* the stage of query that raised, and what it raised
  result           \* what the call has come to

vars ==
  << op, pc, query, start, max_results, top_n, search_query, url, xml_content,
     documents, rerank_results, calls, failed, result >>

GeminiCall(q) ==
  [api |-> "gemini", query |-> q, url |-> << >>, documents |-> << >>, top_n |-> 0]
ArxivCall(u) ==
  [api |-> "arxiv", query |-> << >>, url |-> u, documents |-> << >>, top_n |-> 0]
CohereCall(q, docs, n) ==
  [api |-> "cohere", query |-> q, url |-> << >>, documents |-> docs, top_n |-> n]

NoFailure == [stage |-> "-", exc |-> "-"]
Failure(stage, r) == [stage |-> stage, exc |-> r.exc]

\* A call of query(query, start, max_results, top_n).
InitQuery ==
  /\ op = "query" /\ pc = "rewrite"
  /\ query \in Queries
  /\ \E a \in QueryArgs :
       start = a.start /\ max_results = a.max_results /\ top_n = a.top_n
  /\ search_query = << >> /\ url = << >> /\ xml_content = NotXml
  /\ documents = << >>

\* A call of __get_query_url(search_query, start, max_results).
InitGetQueryUrl ==
  /\ op = "get_query_url" /\ pc = "call"
  /\ search_query \in Exprs
  /\ start \in StartValues
  /\ max_results \in MaxResultsValues
  /\ query = << >> /\ top_n = 0 /\ url = << >> /\ xml_content = NotXml
  /\ documents = << >>

\* A call of __parse_query_xml(xml_content).
InitParseQueryXml ==
  /\ op = "parse_query_xml" /\ pc = "call"
  /\ xml_content \in Contents
  /\ query = << >> /\ start = 0 /\ max_results = 0 /\ top_n = 0
  /\ search_query = << >> /\ url = << >> /\ documents = << >>

\* A call of __rerank_results(query, documents, top_n).
InitRerankResults ==
  /\ op = "rerank_results" /\ pc = "call"
  /\ query \in Queries
  /\ top_n \in TopNValues
  /\ \E n \in 0..MaxDocs : documents = Docs(n)
  /\ start = 0 /\ max_results = 0
  /\ search_query = << >> /\ url = << >> /\ xml_content = NotXml

Init ==
  /\ \/ InitQuery
     \/ InitGetQueryUrl
     \/ InitParseQueryXml
     \/ InitRerankResults
  /\ rerank_results = << >>
  /\ calls = << >>
  /\ failed = NoFailure
  /\ result = Running

\* ------------------------------------------------- the helpers, called
CallGetQueryUrl ==
  /\ op = "get_query_url" /\ pc = "call"
  /\ result' = GetQueryUrl(search_query, start, max_results)
  /\ pc' = "done"
  /\ UNCHANGED << op, query, start, max_results, top_n, search_query, url,
                  xml_content, documents, rerank_results, calls, failed >>

CallParseQueryXml ==
  /\ op = "parse_query_xml" /\ pc = "call"
  /\ result' = ParseQueryXml(xml_content)
  /\ pc' = "done"
  /\ UNCHANGED << op, query, start, max_results, top_n, search_query, url,
                  xml_content, documents, rerank_results, calls, failed >>

\* What one call of __rerank_results(_, docs, _) can come to: the
\* provider raises, or it answers and the records are built from the answer.
RerankOutcomes(docs) ==
  {[answer |-> << >>, result |-> Raise(e)] : e \in CohereErrors}
  \cup {[answer |-> a, result |-> Return(RerankLoop(docs, a, << >>))] :
          a \in RerankResponses(docs)}

\* __rerank_results(q, docs, n) coming to outcome o: the provider is called
\* with q, docs and n, whatever docs holds.
RerankResults(q, docs, n, o) ==
  /\ calls' = Append(calls, CohereCall(q, docs, n))
  /\ rerank_results' = o.answer

CallRerankResults ==
  /\ op = "rerank_results" /\ pc = "call"
  /\ \E o \in RerankOutcomes(documents) :
       /\ RerankResults(query, documents, top_n, o)
       /\ result' = o.result
  /\ pc' = "done"
  /\ UNCHANGED << op, query, start, max_results, top_n, search_query, url,
                  xml_content, documents, failed >>

\* ------------------------------------------------------------- query
\* __parse_search_query_response: json.loads raises JSONDecodeError on text
\* that is no JSON; a missing key raises KeyError.
ParseSearchQueryResponse(response) ==
  IF ~response.json THEN Raise("JSONDecodeError")
  ELSE IF ~(\A key \in JsonKeys : key \in response.keys) THEN Raise("KeyError")
  ELSE Return(response.search_query)

\* A handler that catches nothing.
QueryExceptNothing(r) == r

\* A handler that catches every exception.
QueryExceptAll(r) == IF r.kind = "raise" THEN ReturnNone ELSE r

\* The except clause of query: an exception of a class derived from
\* RequestException becomes a returned None, any other propagates.
QueryExcept(r) ==
  IF r.kind = "raise" /\ r.exc \in RequestException THEN ReturnNone ELSE r

\* __get_search_query: one call of the generative model, then the parse of
\* its text.
QueryRewrite ==
  /\ op = "query" /\ pc = "rewrite"
  /\ calls' = Append(calls, GeminiCall(query))
  /\ \/ \E e \in GeminiErrors :
          /\ result' = QueryExcept(Raise(e))
          /\ failed' = Failure("generate_content", Raise(e))
          /\ pc' = "done"
          /\ UNCHANGED search_query
     \/ \E response \in LLMResponses :
          LET r == ParseSearchQueryResponse(response) IN
            IF r.kind = "raise"
            THEN /\ result' = QueryExcept(r)
                 /\ failed' = Failure("parse_search_query_response", r)
                 /\ pc' = "done"
                 /\ UNCHANGED search_query
            ELSE /\ search_query' = r.value
                 /\ pc' = "url"
                 /\ UNCHANGED << result, failed >>
  /\ UNCHANGED << op, query, start, max_results, top_n, url, xml_content,
                  documents, rerank_results >>

\* url = self.__get_query_url(<the rewriter's expression>, start, max_results)
QueryBuildUrl ==
  /\ op = "query" /\ pc = "url"
  /\ LET r == GetQueryUrl(search_query, start, max_results) IN
       IF r.kind = "raise"
       THEN /\ result' = QueryExcept(r)
            /\ failed' = Failure("get_query_url", r)
            /\ pc' = "done"
            /\ UNCHANGED url
       ELSE /\ url' = r.value
            /\ pc' = "get"
            /\ UNCHANGED << result, failed >>
  /\ UNCHANGED << op, query, start, max_results, top_n, search_query,
                  xml_content, documents, rerank_results, calls >>

\* A GET that is tried a second time after a transport failure.
QueryGetRetry ==
  /\ op = "query" /\ pc = "get"
  /\ \/ \E e \in RequestException :
          /\ calls' = Append(Append(calls, ArxivCall(url)), ArxivCall(url))
          /\ result' = QueryExcept(Raise(e))
          /\ failed' = Failure("get", Raise(e))
          /\ pc' = "done"
          /\ UNCHANGED xml_content
     \/ \E content \in QueryContents :
          /\ calls' = Append(calls, ArxivCall(url))
          /\ xml_content' = content
          /\ pc' = "parse"
          /\ UNCHANGED << result, failed >>
  /\ UNCHANGED << op, query, start, max_results, top_n, search_query, url,
                  documents, rerank_results >>

\* response = self.__session.get(url=url); response.raise_for_status()
QueryGet ==
  /\ op = "query" /\ pc = "get"
  /\ calls' = Append(calls, ArxivCall(url))
  /\ \/ \E e \in RequestException :
          /\ result' = QueryExcept(Raise(e))
          /\ failed' = Failure("get", Raise(e))
          /\ pc' = "done"
          /\ UNCHANGED xml_content
     \/ \E content \in QueryContents :
          /\ xml_content' = content
          /\ pc' = "parse"
          /\ UNCHANGED << result, failed >>
  /\ UNCHANGED << op, query, start, max_results, top_n, search_query, url,
                  documents, rerank_results >>

\* self.__parse_query_xml(response.content), the argument of the rerank.
QueryParse ==
  /\ op = "query" /\ pc = "parse"
  /\ LET r == ParseQueryXml(xml_content) IN
       IF r.kind = "raise"
       THEN /\ result' = QueryExcept(r)
            /\ failed' = Failure("parse_query_xml", r)
            /\ pc' = "done"
            /\ UNCHANGED documents
       ELSE /\ documents' = r.value
            /\ pc' = "rerank"
            /\ UNCHANGED << result, failed >>
  /\ UNCHANGED << op, query, start, max_results, top_n, search_query, url,
                  xml_content, rerank_results, calls >>

\* A rerank against the rewritten expression.
QueryRerankRewritten ==
  /\ op = "query" /\ pc = "rerank"
  /\ \E o \in RerankOutcomes(documents) :
       /\ RerankResults(search_query, documents, top_n, o)
       /\ result' = QueryExcept(o.result)
       /\ failed' = IF o.result.kind = "raise"
                    THEN Failure("rerank", o.result) ELSE failed
  /\ pc' = "done"
  /\ UNCHANGED << op, query, start, max_results, top_n, search_query, url,
                  xml_content, documents >>

\* return self.__rerank_results(query, <the parsed records>, top_n)
QueryRerank ==
  /\ op = "query" /\ pc = "rerank"
  /\ \E o \in RerankOutcomes(documents) :
       /\ RerankResults(query, documents, top_n, o)
       /\ result' = QueryExcept(o.result)
       /\ failed' = IF o.result.kind = "raise"
                    THEN Failure("rerank", o.result) ELSE failed
  /\ pc' = "done"
  /\ UNCHANGED << op, query, start, max_results, top_n, search_query, url,
                  xml_content, documents >>

Next ==
  \/ CallGetQueryUrl
  \/ CallParseQueryXml
  \/ CallRerankResults
  \/ QueryRewrite
  \/ QueryBuildUrl
  \/ QueryGet
  \/ QueryParse
  \/ QueryRerank

Spec == Init /\ [][Next]_vars

\* ----------------------------------------------------------- claims
Apis == [i \in 1..Len(calls) |-> calls[i].api]
CallOrder == << "gemini", "arxiv", "cohere" >>
IsPrefix(s, t) == Len(s) <= Len(t) /\ \A i \in 1..Len(s) : s[i] = t[i]
Made(api) == \E i \in 1..Len(calls) : calls[i].api = api
QueryCalled == op = "query"
QueryDone == op = "query" /\ pc = "done"

\* C1: when the arXiv GET of a query call fails with a transport failure
\* (a RequestException of Session.get or raise_for_status), query raises
\* nothing and returns None, and neither the feed parser nor the reranker
\* has run: no record was parsed and the reranking provider was not called.
C1_TransportFailureReturnsNone ==
  (QueryCalled /\ failed.stage = "get")
    => /\ pc = "done"
       /\ result.kind = "return" /\ result.none
       /\ documents = << >>
       /\ rerank_results = << >>
       /\ ~Made("cohere")
       /\ Apis = << "gemini", "arxiv" >>

C1_Witness ==
  /\ QueryDone /\ failed.stage = "get" /\ failed.exc = "Timeout"
  /\ result = ReturnNone

\* C2: a failure of any stage other than the arXiv GET (the generative
\* model's call, the JSON parse of its text, the URL builder, the feed
\* parser, the reranking provider's call) leaves query with that very
\* exception raised, and query returns None only when the GET itself failed.
C2_OtherFailuresPropagate ==
  QueryDone
    => /\ (failed.stage \notin {"-", "get"}) => result = Raise(failed.exc)
       /\ (result.kind = "return" /\ result.none) => failed.stage = "get"
       /\ (failed.stage = "-") => (result.kind = "return" /\ ~result.none)

C2_Witness ==
  /\ QueryDone /\ failed.stage = "parse_query_xml"
  /\ result = Raise("AttributeError")

\* C9: in a query call the outbound calls made are a prefix of <generative
\* model, arXiv GET, reranking provider>, each made at most once; the GET is
\* made only after the rewrite and the URL builder succeeded, the rerank call
\* only after the GET and the feed parser succeeded too; and a ranked
\* sequence is returned only when all three calls were made.
C9_CallsArePrefixOfPipeline ==
  QueryCalled
    => /\ IsPrefix(Apis, CallOrder)
       /\ Made("arxiv")
            => /\ failed.stage \notin
                    {"generate_content", "parse_search_query_response", "get_query_url"}
               /\ search_query # << >>
               /\ url = GetQueryUrl(search_query, start, max_results).value
       /\ Made("cohere")
            => /\ failed.stage \in {"-", "rerank"}
               /\ xml_content.wellformed
               /\ ParseQueryXml(xml_content) = Return(documents)
       /\ (pc = "done" /\ failed.stage # "-")
            => Len(calls) = CASE failed.stage = "generate_content" -> 1
                              [] failed.stage = "parse_search_query_response" -> 1
                              [] failed.stage = "get_query_url" -> 1
                              [] failed.stage = "get" -> 2
                              [] failed.stage = "parse_query_xml" -> 2
                              [] failed.stage = "rerank" -> 3
       /\ (result.kind = "return" /\ ~result.none) => Apis = CallOrder

C9_Witness ==
  /\ QueryDone /\ Apis = CallOrder
  /\ result.kind = "return" /\ ~result.none /\ Len(result.value) = 2

\* C10: in a query call that reaches the rerank, the provider is sent the
\* caller's query (not the rewritten expression), the parsed records and the
\* caller's top_n; the rewritten expression goes into the URL of the GET,
\* built with the caller's start and max_results.
C10_RerankUsesOriginalQuery ==
  (QueryCalled /\ Made("cohere"))
    => /\ calls[3].query = query
       /\ calls[3].top_n = top_n
       /\ calls[3].documents = documents
       /\ calls[1].query = query
       /\ calls[2].url = GetQueryUrl(search_query, start, max_results).value

C10_Witness ==
  /\ QueryDone /\ Made("cohere")
  /\ search_query # query
  /\ calls[3].query = query /\ calls[3].top_n = top_n

\* ------------------------------------------------ claims: reranker
RerankRan ==
  \/ op = "rerank_results" /\ pc = "done"
  \/ op = "query" /\ Made("cohere")
RerankReturned == RerankRan /\ result.kind = "return" /\ ~result.none

SortedDesc(rs) ==
  \A i \in 1..Len(rs) : \A j \in 1..Len(rs) :
    i < j => rs[i].relevance_score >= rs[j].relevance_score
HasAllCandidates(rs) ==
  \A d \in 1..Len(documents) : \E i \in 1..Len(rs) : rs[i].id = documents[d].id
CoversAllIndices(rs) ==
  \A d \in 1..Len(documents) : \E i \in 1..Len(rs) : rs[i].index = d - 1

\* C3 as claimed: whatever pairs the provider returns, the reranker's
\* sequence is sorted by non-increasing relevance_score, is at most top_n
\* long, and holds all candidates when top_n exceeds their number.
C3_SortedAndCapped ==
  RerankReturned
    => /\ SortedDesc(result.value)
       /\ Len(result.value) <= top_n
       /\ (top_n > Len(documents)) => HasAllCandidates(result.value)

\* C3 as amended: the reranker's sequence has one record per result the
\* provider returned, in the provider's order (same score, the candidate of
\* the same index); so it is sorted by non-increasing relevance_score exactly
\* when the provider's results are, at most top_n long exactly when the
\* provider returned at most top_n results, and holds all candidates
\* exactly when the provider returned every index.
C3_FollowsProviderOrder ==
  RerankReturned
    => /\ Len(result.value) = Len(rerank_results)
       /\ \A i \in 1..Len(rerank_results) :
            /\ result.value[i].relevance_score = rerank_results[i].relevance_score
            /\ result.value[i].id = documents[rerank_results[i].index + 1].id
       /\ SortedDesc(result.value) <=> SortedDesc(rerank_results)
       /\ (Len(result.value) <= top_n) <=> (Len(rerank_results) <= top_n)
       /\ HasAllCandidates(result.value) <=> CoversAllIndices(rerank_results)

C3_Witness ==
  /\ RerankReturned
  /\ Len(documents) = 2 /\ Len(rerank_results) = 2 /\ top_n = 2
  /\ rerank_results[1].index = 1 /\ rerank_results[2].index = 0
  /\ rerank_results[1].relevance_score > rerank_results[2].relevance_score
  /\ SortedDesc(result.value) /\ HasAllCandidates(result.value)

\* C4: for every (index, score) pair the provider returned, the record the
\* reranker emits at that position has that score and the ten fields of the
\* candidate at that index; it emits no other record, and the candidates it
\* was given are as they were when the provider was called.
C4_RecordsMatchCandidates ==
  RerankReturned
    => /\ Len(result.value) = Len(rerank_results)
       /\ \A i \in 1..Len(rerank_results) :
            LET out == result.value[i]
                doc == documents[rerank_results[i].index + 1]
            IN /\ out.relevance_score = rerank_results[i].relevance_score
               /\ out.id = doc.id
               /\ out.updated = doc.updated
               /\ out.published = doc.published
               /\ out.title = doc.title
               /\ out.summary = doc.summary
               /\ out.authors = doc.authors
               /\ out.link = doc.link
               /\ out.pdf_link = doc.pdf_link
               /\ out.primary_category = doc.primary_category
               /\ out.categories = doc.categories
       /\ documents = calls[Len(calls)].documents

C4_Witness ==
  /\ RerankReturned
  /\ Len(documents) = 2 /\ Len(rerank_results) = 2
  /\ rerank_results[1].index = 1 /\ rerank_results[2].index = 1
  /\ result.value[1].title = documents[2].title
  /\ result.value[1].pdf_link # result.value[1].link

\* C5 as claimed: given no candidates, the reranker returns the empty
\* sequence, without an error and without a call of the reranking provider.
C5_EmptyCandidatesNoProviderCall ==
  (RerankRan /\ documents = << >>)
    => /\ result = Return(<< >>)
       /\ ~Made("cohere")

\* -------------------------------------------------- claims: parser
ParserRan ==
  \/ op = "parse_query_xml" /\ pc = "done"
  \/ /\ op = "query"
     /\ (pc = "rerank" \/ Made("cohere") \/ failed.stage = "parse_query_xml")
ParserResult ==
  IF op = "parse_query_xml" THEN result
  ELSE IF failed.stage = "parse_query_xml" THEN Raise(failed.exc)
  ELSE Return(documents)

\* The entry lacks one of the elements or attributes the claim lists.
Lacks(entry) ==
  \/ ~entry.id.present
  \/ ~entry.updated.present
  \/ ~entry.published.present
  \/ ~entry.title.present
  \/ ~entry.summary.present
  \/ \E i \in 1..Len(entry.authors) : ~entry.authors[i].name.present
  \/ ~entry.link.present
  \/ ~entry.pdf_link.present
  \/ ~entry.primary_category.present
  \/ entry.primary_category.attr = None
  \/ \E i \in 1..Len(entry.categories) : entry.categories[i].attr = None

\* Every required element is there with its text, every attribute with its
\* value.
Complete(entry) ==
  /\ entry.id.present /\ entry.id.text # None
  /\ entry.updated.present /\ entry.updated.text # None
  /\ entry.published.present /\ entry.published.text # None
  /\ entry.title.present /\ entry.title.text # None
  /\ entry.summary.present /\ entry.summary.text # None
  /\ \A i \in 1..Len(entry.authors) :
       entry.authors[i].name.present /\ entry.authors[i].name.text # None
  /\ entry.link.present /\ entry.link.attr # None
  /\ entry.pdf_link.present /\ entry.pdf_link.attr # None
  /\ entry.primary_category.present /\ entry.primary_category.attr # None
  /\ \A i \in 1..Len(entry.categories) : entry.categories[i].attr # None

\* C6 as claimed: when an entry of the feed lacks a required element or
\* attribute, the parser fails for the whole feed and returns no records.
C6_MissingFieldFailsWholeFeed ==
  ( /\ ParserRan
    /\ xml_content.wellformed
    /\ \E i \in 1..Len(xml_content.entries) : Lacks(xml_content.entries[i]) )
    => ParserResult.kind = "raise"

BuilderRan ==
  \/ op = "get_query_url" /\ pc = "done"
  \/ /\ op = "query"
     /\ pc \notin {"rewrite", "url"}
     /\ failed.stage \notin {"generate_content", "parse_search_query_response"}
BuilderResult ==
  IF op = "get_query_url" THEN result
  ELSE IF failed.stage = "get_query_url" THEN Raise(failed.exc)
  ELSE Return(url)

Contains(s, c) == \E i \in 1..Len(s) : s[i] = c
FirstIndex(s, c) ==
  CHOOSE i \in 1..Len(s) : s[i] = c /\ \A j \in 1..(i - 1) : s[j] # c

\* The pieces of s between the occurrences of c.
RECURSIVE SplitOn(_, _)
SplitOn(s, c) ==
  IF ~Contains(s, c) THEN << s >>
  ELSE << SubSeq(s, 1, FirstIndex(s, c) - 1) >>
       \o SplitOn(SubSeq(s, FirstIndex(s, c) + 1, Len(s)), c)

\* key=value, cut at the first "=".
Param(piece) ==
  IF ~Contains(piece, "=") THEN [key |-> piece, value |-> << >>]
  ELSE [key |-> SubSeq(piece, 1, FirstIndex(piece, "=") - 1),
        value |-> SubSeq(piece, FirstIndex(piece, "=") + 1, Len(piece))]

\* The number a string of decimal digits denotes; -1 for any other string.
IsDigit(c) == \E d \in 1..Len(DigitChars) : DigitChars[d] = c
DigitValue(c) == (CHOOSE d \in 1..Len(DigitChars) : DigitChars[d] = c) - 1
RECURSIVE DigitsValue(_)
DigitsValue(s) ==
  IF Len(s) = 0 THEN 0
  ELSE DigitsValue(SubSeq(s, 1, Len(s) - 1)) * Len(DigitChars) + DigitValue(s[Len(s)])
StrToInt(s) ==
  IF Len(s) > 0 /\ \A i \in 1..Len(s) : IsDigit(s[i]) THEN DigitsValue(s) ELSE -1

Endpoint == BaseUrl \o QueryPath
HasEndpoint(u) == Len(u) >= Len(Endpoint) /\ SubSeq(u, 1, Len(Endpoint)) = Endpoint
QueryString(u) == SubSeq(u, Len(Endpoint) + 1, Len(u))
\* The parameters of the URL's query string, split at "&".
UrlPieces(u) == SplitOn(QueryString(u), "&")
UrlParamsOf(u) == [i \in 1..Len(UrlPieces(u)) |-> Param(UrlPieces(u)[i])]

\* The query string has the three parameters, in order, with the values
\* passed in.
ThreeParams(u) ==
  /\ HasEndpoint(u)
  /\ Len(UrlParamsOf(u)) = 3
  /\ UrlParamsOf(u)[1] = [key |-> SearchQueryKey, value |-> search_query]
  /\ UrlParamsOf(u)[2].key = StartKey
  /\ StrToInt(UrlParamsOf(u)[2].value) = start
  /\ UrlParamsOf(u)[3].key = MaxResultsKey
  /\ StrToInt(UrlParamsOf(u)[3].value) = max_results

\* The query string ends with the start and max_results parameters, and
\* what precedes them is search_query= followed by the expression as given.
VerbatimParams(u) ==
  LET n == Len(UrlPieces(u)) IN
  /\ HasEndpoint(u)
  /\ n >= 3
  /\ Join(SubSeq(UrlPieces(u), 1, n - 2), << "&" >>)
       = SearchQueryKey \o << "=" >> \o search_query
  /\ UrlParamsOf(u)[n - 1].key = StartKey
  /\ StrToInt(UrlParamsOf(u)[n - 1].value) = start
  /\ UrlParamsOf(u)[n].key = MaxResultsKey
  /\ StrToInt(UrlParamsOf(u)[n].value) = max_results

\* C8 as claimed: the URL builder raises on the empty expression, and for
\* every non-empty expression returns the endpoint followed by a query string
\* of exactly the three parameters search_query, start and max_results, in
\* that order, with the values passed in; and a query call whose rewriter
\* yields the empty expression makes no GET.
C8_ThreeParamsForEveryExpression ==
  BuilderRan
    => /\ (search_query = << >>) => BuilderResult = Raise("ValueError")
       /\ (search_query # << >>)
            => (BuilderResult.kind = "return" /\ ThreeParams(BuilderResult.value))
       /\ (QueryCalled /\ search_query = << >>) => ~Made("arxiv")

\* C8 as amended: the URL builder raises on the empty expression, and for
\* every non-empty expression returns the endpoint followed by search_query=,
\* the expression as given (not encoded), &start= and &max_results= with the
\* values passed in; split at "&", that query string has exactly the three
\* parameters with the values passed in if and only if the expression holds
\* no "&"; and a query call whose rewriter yields the empty expression makes
\* no GET.
C8_VerbatimExpression ==
  BuilderRan
    => /\ (search_query = << >>) => BuilderResult = Raise("ValueError")
       /\ (search_query # << >>)
            => /\ BuilderResult.kind = "return"
               /\ VerbatimParams(BuilderResult.value)
               /\ ThreeParams(BuilderResult.value) <=> ~Contains(search_query, "&")
       /\ (QueryCalled /\ search_query = << >>) => ~Made("arxiv")

C8_Witness ==
  /\ op = "get_query_url" /\ pc = "done"
  /\ search_query = << "a", "&" >> /\ max_results = DefaultQueryMaxResults
  /\ result.kind = "return"
  /\ Len(UrlParamsOf(result.value)) = 4

====
